---- MODULE Spec2Model ----
(***************************************************************************)
(* The Oracle contract (contracts/Oracle.sol) on its ledger.               *)
(*                                                                         *)
(* One action is one transaction or one view call: the EVM applies a       *)
(* transaction whole or, when it reverts, not at all.  Oracle.sol holds    *)
(* two builds of the contract, which differ only in how onlyOracle         *)
(* rejects a caller; the variable build says which one is deployed.        *)
(***************************************************************************)
EXTENDS Integers, Sequences, FiniteSets, TLC

\* ---------------------------------------------------------------- bounds
\* uint256 scaled down: the largest value of the model's word.
MaxUint == 2
\* Calls (transactions and view calls) made against one deployment.
MaxCalls == 4
\* The ledger's clock stops advancing here.
MaxTime == 3
\* block.timestamp of the block that holds the deployment (Unix time, > 0).
GenesisTime == 1
\* getData() requests issued by the clients of SpecClients.
MaxReads == 1
\* updateData transactions submitted by the clients of SpecClients.
MaxTxs == 2
\* Update cycles started by one run of the Updater.
MaxCycles == 2
\* Steps of the Updater's clock per timer interval.
StepsPerInterval == 1
\* Weather readings encoded and written in one run of SpecWeather.
MaxReadings == 2

\* ---------------------------------------------------------------- types
\* The signers of the tests: [owner, user1, user2] = getSigners().
Address == {"owner", "user1", "user2"}
\* address(0): the value of an address slot never assigned.
ZeroAddress == "0x0"
\* The values a uint256 argument can take (the ABI encoder accepts no other).
Uint256 == 0 .. MaxUint
\* The two contracts of Oracle.sol.
Builds == {"require", "customError"}

VARIABLES
    build,          \* which contract of Oracle.sol is deployed
    deployer,       \* msg.sender of the deployment transaction
    data,           \* uint256 private data
    lastUpdated,    \* uint256 private lastUpdated
    oracleUpdater,  \* address public oracleUpdater
    events,         \* the DataUpdated log of the contract, in emission order
    blockTimestamp, \* block.timestamp of the block being built
    lastCall,       \* the call executed last and what its caller got back
    nCalls,         \* how many calls have been executed
    writes,         \* the (value, time) of each updateData that succeeded
    reads,          \* the getData() requests of the clients, in order of issue
    txpool,         \* updateData transactions submitted and not yet executed
    upProc,         \* the Updater process: "init", "running" or "exited"
    timerActive,    \* setInterval(updateOracle, ...) is armed
    nextFire,       \* the Updater's clock value at which the timer fires next
    now,            \* the Updater's clock, in ms since the process started
    cycles,         \* the calls of updateOracle(), in order of start
    ledgerUp,       \* the ledger endpoint answers the Updater
    startedDown,    \* the ledger endpoint was unreachable at process start
    livePc,         \* liveOracle.ts: the statement main() is at
    liveArg,        \* liveOracle.ts: the value of the update step under way
    liveCalls,      \* liveOracle.ts: the updateOracle() calls made, in order
    liveExit        \* liveOracle.ts: the exit status, "none" while it runs

\* The requests in flight between the clients and the ledger.
clientVars == <<reads, txpool>>

\* The Updater process (Updater.ts) and its link to the ledger.
updVars == <<upProc, timerActive, nextFire, now, cycles, ledgerUp, startedDown>>

\* The live-oracle script (scripts/liveOracle.ts).
liveVars == <<livePc, liveArg, liveCalls, liveExit>>

\* What lives outside the ledger: idle in the specifications that do not use it.
offLedgerVars == <<clientVars, updVars, liveVars>>

vars == <<build, deployer, data, lastUpdated, oracleUpdater, events,
          blockTimestamp, lastCall, nCalls, writes, offLedgerVars>>

contractVars == <<data, lastUpdated, oracleUpdater, events>>

\* ------------------------------------------------------------ the contract
\* constructor() { oracleUpdater = msg.sender; }  data and lastUpdated keep
\* the zero a storage slot starts with; the log starts empty.
constructor_Unset(sender) ==
    [data |-> 0, lastUpdated |-> 0, oracleUpdater |-> ZeroAddress, events |-> <<>>]

constructor_StampsDeployTime(sender) ==
    [data |-> 0, lastUpdated |-> GenesisTime, oracleUpdater |-> sender,
     events |-> <<>>]

constructor(sender) ==
    [data |-> 0, lastUpdated |-> 0, oracleUpdater |-> sender, events |-> <<>>]

\* modifier onlyOracle: the condition under which the body runs.
onlyOracle_Anyone(sender) == TRUE

onlyOracle(sender) == sender = oracleUpdater

\* What a caller rejected by onlyOracle gets back:
\*   require(msg.sender == oracleUpdater, "Not authorized")  -> Error(string)
\*   if (msg.sender != oracleUpdater) revert NotAuthorized() -> a custom error,
\*                                                              no reason string
NotAuthorizedRevert ==
    IF build = "require"
    THEN [status |-> "reverted", reason |-> "Not authorized", error |-> "Error"]
    ELSE [status |-> "reverted", reason |-> "", error |-> "NotAuthorized"]

Success == [status |-> "success", reason |-> "", error |-> ""]

\* emit DataUpdated(value, block.timestamp)
emitDataUpdated_Dropped(log, value, timestamp) == log

emitDataUpdated_Twice(log, value, timestamp) ==
    Append(Append(log, [value |-> value, timestamp |-> timestamp]),
           [value |-> value, timestamp |-> timestamp])

emitDataUpdated_Prepends(log, value, timestamp) ==
    <<[value |-> value, timestamp |-> timestamp]>> \o log

emitDataUpdated(log, value, timestamp) ==
    Append(log, [value |-> value, timestamp |-> timestamp])

Call(op, sender, value, outcome, ret) ==
    [op |-> op, sender |-> sender, value |-> value, status |-> outcome.status,
     reason |-> outcome.reason, error |-> outcome.error, ret |-> ret]

\* function updateData(uint256 value) external onlyOracle
updateData_KeepsTimestamp(sender, value) ==
    IF onlyOracle(sender)
    THEN /\ data' = value
         /\ lastUpdated' = lastUpdated
         /\ events' = emitDataUpdated(events, value, blockTimestamp)
         /\ oracleUpdater' = oracleUpdater
         /\ lastCall' = Call("updateData", sender, value, Success, <<>>)
    ELSE /\ UNCHANGED contractVars
         /\ lastCall' = Call("updateData", sender, value, NotAuthorizedRevert, <<>>)

updateData_WriteOnce(sender, value) ==
    IF onlyOracle(sender)
    THEN /\ data' = IF lastUpdated = 0 THEN value ELSE data
         /\ lastUpdated' = blockTimestamp
         /\ events' = emitDataUpdated(events, value, blockTimestamp)
         /\ oracleUpdater' = oracleUpdater
         /\ lastCall' = Call("updateData", sender, value, Success, <<>>)
    ELSE /\ UNCHANGED contractVars
         /\ lastCall' = Call("updateData", sender, value, NotAuthorizedRevert, <<>>)

updateData_RejectsZero(sender, value) ==
    IF onlyOracle(sender) /\ value # 0
    THEN /\ data' = value
         /\ lastUpdated' = blockTimestamp
         /\ events' = emitDataUpdated(events, value, blockTimestamp)
         /\ oracleUpdater' = oracleUpdater
         /\ lastCall' = Call("updateData", sender, value, Success, <<>>)
    ELSE /\ UNCHANGED contractVars
         /\ lastCall' = Call("updateData", sender, value, NotAuthorizedRevert, <<>>)

updateData_StampsValue(sender, value) ==
    IF onlyOracle(sender)
    THEN /\ data' = value
         /\ lastUpdated' = value
         /\ events' = emitDataUpdated(events, value, blockTimestamp)
         /\ oracleUpdater' = oracleUpdater
         /\ lastCall' = Call("updateData", sender, value, Success, <<>>)
    ELSE /\ UNCHANGED contractVars
         /\ lastCall' = Call("updateData", sender, value, NotAuthorizedRevert, <<>>)

updateData_StampsParentBlock(sender, value) ==
    IF onlyOracle(sender)
    THEN /\ data' = value
         /\ lastUpdated' = blockTimestamp - 1
         /\ events' = emitDataUpdated(events, value, blockTimestamp)
         /\ oracleUpdater' = oracleUpdater
         /\ lastCall' = Call("updateData", sender, value, Success, <<>>)
    ELSE /\ UNCHANGED contractVars
         /\ lastCall' = Call("updateData", sender, value, NotAuthorizedRevert, <<>>)

updateData_SkipsSameValue(sender, value) ==
    IF onlyOracle(sender)
    THEN /\ data' = value
         /\ lastUpdated' = IF value = data /\ lastUpdated # 0
                           THEN lastUpdated ELSE blockTimestamp
         /\ events' = IF value = data /\ lastUpdated # 0
                      THEN events
                      ELSE emitDataUpdated(events, value, blockTimestamp)
         /\ oracleUpdater' = oracleUpdater
         /\ lastCall' = Call("updateData", sender, value, Success, <<>>)
    ELSE /\ UNCHANGED contractVars
         /\ lastCall' = Call("updateData", sender, value, NotAuthorizedRevert, <<>>)

updateData_WritesBeforeCheck(sender, value) ==
    IF onlyOracle(sender)
    THEN /\ data' = value
         /\ lastUpdated' = blockTimestamp
         /\ events' = emitDataUpdated(events, value, blockTimestamp)
         /\ oracleUpdater' = oracleUpdater
         /\ lastCall' = Call("updateData", sender, value, Success, <<>>)
    ELSE /\ data' = value
         /\ UNCHANGED <<lastUpdated, oracleUpdater, events>>
         /\ lastCall' = Call("updateData", sender, value, NotAuthorizedRevert, <<>>)

updateData(sender, value) ==
    IF onlyOracle(sender)
    THEN /\ data' = value
         /\ lastUpdated' = blockTimestamp
         /\ events' = emitDataUpdated(events, value, blockTimestamp)
         /\ oracleUpdater' = oracleUpdater
         /\ lastCall' = Call("updateData", sender, value, Success, <<>>)
    ELSE /\ UNCHANGED contractVars
         /\ lastCall' = Call("updateData", sender, value, NotAuthorizedRevert, <<>>)

\* function getData() external view returns (uint256 value, uint256 timestamp)
getData_Swapped == <<lastUpdated, data>>

getData == <<data, lastUpdated>>

\* ------------------------------------------------------------- the ledger
ClientsIdle ==
    /\ reads = <<>>
    /\ txpool = <<>>

UpdaterIdle ==
    /\ upProc = "init"
    /\ timerActive = FALSE
    /\ nextFire = 0
    /\ now = 0
    /\ cycles = <<>>
    /\ ledgerUp = TRUE
    /\ startedDown = FALSE

LiveIdle ==
    /\ livePc = [step |-> "none", at |-> "idle"]
    /\ liveArg = [isNaN |-> FALSE, n |-> 0]
    /\ liveCalls = <<>>
    /\ liveExit = "none"

OffLedgerIdle == ClientsIdle /\ UpdaterIdle /\ LiveIdle

Deployed ==
    /\ build \in Builds
    /\ deployer \in Address
    /\ blockTimestamp = GenesisTime
    /\ data = constructor(deployer).data
    /\ lastUpdated = constructor(deployer).lastUpdated
    /\ oracleUpdater = constructor(deployer).oracleUpdater
    /\ events = constructor(deployer).events
    /\ lastCall = Call("constructor", deployer, 0, Success, <<>>)
    /\ nCalls = 0
    /\ writes = <<>>

Init == Deployed /\ OffLedgerIdle

\* A transaction calling updateData(value), signed by sender, is executed.
UpdateData ==
    \E sender \in Address, value \in Uint256 :
        /\ nCalls < MaxCalls
        /\ updateData(sender, value)
        /\ nCalls' = nCalls + 1
        /\ writes' = IF lastCall'.status = "success"
                     THEN Append(writes, [value |-> value, timestamp |-> blockTimestamp])
                     ELSE writes
        /\ UNCHANGED <<build, deployer, blockTimestamp, offLedgerVars>>

\* A view call of getData() by caller: it reads the state and changes none.
GetDataBy(caller) ==
    /\ nCalls < MaxCalls
    /\ lastCall' = Call("getData", caller, 0, Success, getData)
    /\ nCalls' = nCalls + 1
    /\ UNCHANGED <<build, deployer, blockTimestamp, writes, offLedgerVars>>
    /\ UNCHANGED contractVars

GetData == \E caller \in Address : GetDataBy(caller)

\* The ledger closes the block and opens the next one, later in time.
MineBlock ==
    /\ blockTimestamp < MaxTime
    /\ blockTimestamp' = blockTimestamp + 1
    /\ UNCHANGED <<build, deployer, lastCall, nCalls, writes, offLedgerVars>>
    /\ UNCHANGED contractVars

\* ethers.provider.getBlock("latest").timestamp: the time of the newest closed
\* block, the one before the block being built (MineBlock steps the time by
\* one).
latestBlockTime == blockTimestamp - 1

Next ==
    \/ UpdateData
    \/ GetData
    \/ MineBlock

Spec == Init /\ [][Next]_vars

\* ------------------------------------------------- clients racing a write
\* "Should handle multiple users reading while one updates": the getData()
\* calls and the updateData() transaction are started without awaiting one
\* another, so the ledger answers the reads and executes the transaction in
\* whatever order the requests reach it.

\* A user starts getData(): oracle.connect(user1).getData(), not awaited.
IssueRead ==
    \E caller \in Address \ {oracleUpdater} :
        /\ Len(reads) < MaxReads
        /\ reads' = Append(reads, [caller |-> caller, state |-> "pending",
                                   issuedAfter |-> Len(writes) + Len(txpool),
                                   answeredAfter |-> 0, ret |-> <<>>])
        /\ UNCHANGED <<build, deployer, blockTimestamp, lastCall, nCalls,
                       writes, txpool, updVars, liveVars>>
        /\ UNCHANGED contractVars

\* The ledger answers a pending getData() from the state it is in; the
\* answer is delivered in the request's record.
AnswerRead ==
    \E i \in 1 .. Len(reads) :
        /\ reads[i].state = "pending"
        /\ reads' = [reads EXCEPT ![i].state = "answered",
                                  ![i].answeredAfter = Len(writes),
                                  ![i].ret = getData]
        /\ UNCHANGED <<build, deployer, blockTimestamp, lastCall, nCalls,
                       writes, txpool, updVars, liveVars>>
        /\ UNCHANGED contractVars

\* oracle.connect(owner).updateData(value): the transaction is submitted.
SubmitUpdate ==
    \E value \in Uint256 :
        /\ Len(writes) + Len(txpool) < MaxTxs
        /\ txpool' = Append(txpool, [sender |-> oracleUpdater, value |-> value])
        /\ UNCHANGED <<build, deployer, blockTimestamp, lastCall, nCalls,
                       writes, reads, updVars, liveVars>>
        /\ UNCHANGED contractVars

\* The ledger executes the oldest submitted transaction (nonce order).
ExecuteUpdate ==
    /\ txpool # <<>>
    /\ updateData(Head(txpool).sender, Head(txpool).value)
    /\ nCalls' = nCalls + 1
    /\ writes' = IF lastCall'.status = "success"
                 THEN Append(writes, [value |-> Head(txpool).value,
                                      timestamp |-> blockTimestamp])
                 ELSE writes
    /\ txpool' = Tail(txpool)
    /\ UNCHANGED <<build, deployer, blockTimestamp, reads, updVars, liveVars>>

\* Automining: the ledger opens a new block when a transaction waits for one.
MineForPending == txpool # <<>> /\ MineBlock

NextClients ==
    \/ IssueRead
    \/ AnswerRead
    \/ SubmitUpdate
    \/ ExecuteUpdate
    \/ MineForPending

\* The deployment of the tests' beforeEach: the first signer deploys.
InitClients == Init /\ deployer = "owner"

SpecClients == InitClients /\ [][NextClients]_vars

\* ------------------------------------------------------------ the Updater
\* Updater.ts: updateOracle(), called once at start and then by setInterval.

\* The account of the Updater's private key (account #0 of the local node).
Wallet == "owner"

\* setInterval(updateOracle, 5 * 60 * 1000)
IntervalMs_FiveSeconds == 5 * 1000

IntervalMs == 5 * 60 * 1000

\* Math.floor(Math.random() * 1000)
RandomRange == 1000

RandomValues == {v \in Uint256 : v < RandomRange}

\* The Updater's clock advances by this much in one step.
ClockStep == IntervalMs \div StepsPerInterval

\* updateOracle() up to its first await: the value is drawn and
\* contract.updateData(value) is called; its promise is pending.
beginCycle(cs, value, t) ==
    Append(cs, [value |-> value, state |-> "submitting", startedAt |-> t,
                submissions |-> 0, receipt |-> "none", error |-> ""])

\* catch (error) { console.error('Error during update:', error); }
\* The cycle ends with the error logged.
catchError_Retries(cycle, error) ==
    [cycle EXCEPT !.state = "submitting", !.error = error]

catchError(cycle, error) ==
    [cycle EXCEPT !.state = "failed", !.error = error]

\* What the catch block leaves of the process: it goes on, the timer armed.
afterCatch_Exits == [proc |-> "exited", timer |-> FALSE]

afterCatch == [proc |-> upProc, timer |-> timerActive]

\* A step of the Updater process or of its link: the ledger and the other
\* programs do not move.
LedgerIdle ==
    /\ UNCHANGED <<build, deployer, blockTimestamp, lastCall, nCalls, writes, reads,
                   liveVars>>
    /\ UNCHANGED contractVars

InFlight == {i \in 1 .. Len(cycles) : cycles[i].state \in {"submitting", "confirming"}}

\* The module body runs: provider, wallet and contract are constructed (none of
\* them opens a connection), updateOracle() is called, the interval is set.
Start_TimerOnly ==
    /\ upProc = "init"
    /\ upProc' = "running"
    /\ startedDown' = ~ledgerUp
    /\ cycles' = cycles
    /\ timerActive' = TRUE
    /\ nextFire' = now + IntervalMs
    /\ UNCHANGED <<now, ledgerUp, txpool>>
    /\ LedgerIdle

Start ==
    /\ upProc = "init"
    /\ upProc' = "running"
    /\ startedDown' = ~ledgerUp
    /\ \E value \in RandomValues : cycles' = beginCycle(cycles, value, now)
    /\ timerActive' = TRUE
    /\ nextFire' = now + IntervalMs
    /\ UNCHANGED <<now, ledgerUp, txpool>>
    /\ LedgerIdle

\* The interval elapses: the timer calls updateOracle() again.
TimerFires_WhenIdle ==
    /\ upProc = "running"
    /\ timerActive
    /\ now = nextFire
    /\ InFlight = {}
    /\ Len(cycles) < MaxCycles
    /\ \E value \in RandomValues : cycles' = beginCycle(cycles, value, now)
    /\ nextFire' = nextFire + IntervalMs
    /\ UNCHANGED <<upProc, timerActive, now, ledgerUp, startedDown, txpool>>
    /\ LedgerIdle

TimerFires ==
    /\ upProc = "running"
    /\ timerActive
    /\ now = nextFire
    /\ Len(cycles) < MaxCycles
    /\ \E value \in RandomValues : cycles' = beginCycle(cycles, value, now)
    /\ nextFire' = nextFire + IntervalMs
    /\ UNCHANGED <<upProc, timerActive, now, ledgerUp, startedDown, txpool>>
    /\ LedgerIdle

\* Time passes in the Updater; a due timer fires before more time passes.
Tick ==
    /\ upProc = "running"
    /\ timerActive => now + ClockStep <= nextFire
    /\ now + ClockStep <= MaxCycles * IntervalMs
    /\ now' = now + ClockStep
    /\ UNCHANGED <<upProc, timerActive, nextFire, cycles, ledgerUp, startedDown,
                   txpool>>
    /\ LedgerIdle

\* await contract.updateData(value) resolves: the gas estimate ran the call
\* without a revert and the signed transaction is in the ledger's pool.
SubmitAccepted(i) ==
    /\ upProc = "running"
    /\ cycles[i].state = "submitting"
    /\ ledgerUp
    /\ onlyOracle(Wallet)
    /\ cycles' = [cycles EXCEPT ![i].state = "confirming",
                                ![i].submissions = cycles[i].submissions + 1]
    /\ txpool' = Append(txpool, [sender |-> Wallet, value |-> cycles[i].value,
                                 cycle |-> i])
    /\ UNCHANGED <<upProc, timerActive, nextFire, now, ledgerUp, startedDown>>
    /\ LedgerIdle

\* await contract.updateData(value) throws: the contract rejects the wallet
\* (the gas estimate reverts) or the endpoint does not answer.
SubmitFails(i) ==
    /\ upProc = "running"
    /\ cycles[i].state = "submitting"
    /\ ~ledgerUp \/ ~onlyOracle(Wallet)
    /\ cycles' = [cycles EXCEPT
                    ![i] = catchError(cycles[i],
                                      IF ledgerUp THEN "rejected" ELSE "network")]
    /\ upProc' = afterCatch.proc
    /\ timerActive' = afterCatch.timer
    /\ UNCHANGED <<nextFire, now, ledgerUp, startedDown, txpool>>
    /\ LedgerIdle

\* await tx.wait() resolves with the receipt of the executed transaction,
\* or throws when the receipt says the transaction reverted.
Confirmed(i) ==
    /\ upProc = "running"
    /\ cycles[i].state = "confirming"
    /\ cycles[i].receipt # "none"
    /\ ledgerUp
    /\ IF cycles[i].receipt = "success"
       THEN /\ cycles' = [cycles EXCEPT ![i].state = "done"]
            /\ UNCHANGED <<upProc, timerActive>>
       ELSE /\ cycles' = [cycles EXCEPT ![i] = catchError(cycles[i], "reverted")]
            /\ upProc' = afterCatch.proc
            /\ timerActive' = afterCatch.timer
    /\ UNCHANGED <<nextFire, now, ledgerUp, startedDown, txpool>>
    /\ LedgerIdle

\* await tx.wait() throws: the endpoint stopped answering.
ConfirmationFails(i) ==
    /\ upProc = "running"
    /\ cycles[i].state = "confirming"
    /\ ~ledgerUp
    /\ cycles' = [cycles EXCEPT ![i] = catchError(cycles[i], "confirmation")]
    /\ upProc' = afterCatch.proc
    /\ timerActive' = afterCatch.timer
    /\ UNCHANGED <<nextFire, now, ledgerUp, startedDown, txpool>>
    /\ LedgerIdle

\* The ledger executes the oldest transaction of the wallet (nonce order).
ExecuteUpdaterTx ==
    /\ txpool # <<>>
    /\ updateData(Head(txpool).sender, Head(txpool).value)
    /\ nCalls' = nCalls + 1
    /\ writes' = IF lastCall'.status = "success"
                 THEN Append(writes, [value |-> Head(txpool).value,
                                      timestamp |-> blockTimestamp])
                 ELSE writes
    /\ cycles' = [cycles EXCEPT ![Head(txpool).cycle].receipt =
                                     IF lastCall'.status = "success"
                                     THEN "success" ELSE "reverted"]
    /\ txpool' = Tail(txpool)
    /\ UNCHANGED <<build, deployer, blockTimestamp, reads, liveVars>>
    /\ UNCHANGED <<upProc, timerActive, nextFire, now, ledgerUp, startedDown>>

\* The endpoint at http://127.0.0.1:8545 goes down or comes back.
LinkChanges ==
    /\ ledgerUp' = ~ledgerUp
    /\ UNCHANGED <<upProc, timerActive, nextFire, now, cycles, startedDown,
                   txpool>>
    /\ LedgerIdle

\* SIGINT or SIGTERM: the script installs no handler, so the runtime ends the
\* process at once; pending promises and the timer are dropped.
Signal ==
    /\ upProc = "running"
    /\ upProc' = "killed"
    /\ timerActive' = FALSE
    /\ UNCHANGED <<nextFire, now, cycles, ledgerUp, startedDown, txpool>>
    /\ LedgerIdle

SubmitResolves == \E i \in 1 .. Len(cycles) : SubmitAccepted(i)

SubmitThrows == \E i \in 1 .. Len(cycles) : SubmitFails(i)

WaitResolves == \E i \in 1 .. Len(cycles) : Confirmed(i)

WaitThrows == \E i \in 1 .. Len(cycles) : ConfirmationFails(i)

NextUpdater ==
    \/ Start
    \/ TimerFires
    \/ Tick
    \/ SubmitResolves
    \/ SubmitThrows
    \/ WaitResolves
    \/ WaitThrows
    \/ ExecuteUpdaterTx
    \/ LinkChanges
    \/ Signal

\* The contract of the README (the require build) was deployed by the wallet's
\* account or by another one; the endpoint is up or down when the Updater
\* starts.
InitUpdater ==
    /\ Deployed
    /\ build = "require"
    /\ deployer \in {Wallet, "user1"}
    /\ ClientsIdle
    /\ LiveIdle
    /\ upProc = "init"
    /\ timerActive = FALSE
    /\ nextFire = 0
    /\ now = 0
    /\ cycles = <<>>
    /\ ledgerUp \in BOOLEAN
    /\ startedDown = FALSE

SpecUpdater == InitUpdater /\ [][NextUpdater]_vars

\* ------------------------------------------------- the live-oracle script
\* scripts/liveOracle.ts: main() fetches two prices and sends four updates,
\* one after the other, then reads the contract and exits.

\* A JavaScript number as the script handles it: an integer, or NaN.
Num(n) == [isNaN |-> FALSE, n |-> n]

NaN == [isNaN |-> TRUE, n |-> 0]

\* const [deployer] = await ethers.getSigners(): account #0 of the node.
Signer == "owner"

\* return 50000 in the catch of getBitcoinPrice
BitcoinFallback == 50000

\* return 3000 in the catch of getEthereumPrice
EthereumFallback == 3000

\* Prices the API may quote, in thousandths of a dollar.
PricesMilli == {999, 67250129}

\* What axios.get(...) yields: it throws (no network, HTTP error status), or it
\* resolves with a body that has no entry for the coin, an entry without the
\* usd field, or an entry with a usd price.
Responses ==
    [kind : {"throws", "noCoin", "noUsd"}, milli : {0}]
        \cup [kind : {"usd"}, milli : PricesMilli]

\* Math.floor(price * 100) of a price in thousandths; of undefined it is NaN.
toCents(response) ==
    IF response.kind = "usd" THEN Num(response.milli \div 10) ELSE NaN

\* try { price = response.data.bitcoin.usd; return Math.floor(price * 100) }
\* catch { return 50000 }: the catch runs when axios.get throws and when
\* response.data.bitcoin is undefined (TypeError), not when only usd is.
getBitcoinPrice(response) ==
    IF response.kind \in {"throws", "noCoin"}
    THEN Num(BitcoinFallback)
    ELSE toCents(response)

getEthereumPrice(response) ==
    IF response.kind \in {"throws", "noCoin"}
    THEN Num(EthereumFallback)
    ELSE toCents(response)

\* weatherData.temperature * 10000 + weatherData.humidity * 100 + pressure
encodeWeather(temperature, humidity, pressure) ==
    temperature * 10000 + humidity * 100 + pressure

encodedWeather == encodeWeather(22, 65, 1013)

\* Math.floor(exchangeRate * 10000) of the rate 1.0850
encodedRate == 10850

\* The four tests of main(), in order.
LiveSteps == <<"btc", "eth", "weather", "rate">>

StepIndex(step) == CHOOSE i \in 1..Len(LiveSteps) : LiveSteps[i] = step

\* Where main() goes when the updateOracle() of step has returned.
afterStep(step) ==
    IF StepIndex(step) = Len(LiveSteps)
    THEN [step |-> "final", at |-> "read"]
    ELSE LET next == LiveSteps[StepIndex(step) + 1]
         IN  [step |-> next, at |-> IF next = "eth" THEN "fetch" ELSE "submit"]

\* The argument of the updateOracle() that follows step.
argAfter(step) ==
    IF StepIndex(step) = Len(LiveSteps) THEN liveArg
    ELSE LET next == LiveSteps[StepIndex(step) + 1]
         IN  IF next = "weather" THEN Num(encodedWeather)
             ELSE IF next = "rate" THEN Num(encodedRate)
             ELSE liveArg

\* updateOracle(value, description) is entered: one more call on record.
\* result is "pending" until the call returns, then "true" or "false".
enterUpdate(calls, step, fetch, value) ==
    Append(calls, [step |-> step, fetch |-> fetch, arg |-> value,
                   submitted |-> FALSE, result |-> "pending",
                   seen |-> <<0, 0>>])

\* ethers encodes the uint256 argument: NaN and negatives make it throw.
encodable(value) == ~value.isNaN /\ value.n >= 0

\* A step of the script or of its link: the ledger and the other programs do
\* not move.
LiveFrame ==
    /\ UNCHANGED <<build, deployer, blockTimestamp, lastCall, nCalls, writes, reads>>
    /\ UNCHANGED <<upProc, timerActive, nextFire, now, cycles, startedDown>>
    /\ UNCHANGED contractVars

\* updateOracle() returns result; main() moves to the next test, entering its
\* updateOracle() at once when that test fetches nothing.
returnFrom_AbortsOnFailure(result, seen) ==
    LET step == livePc.step
        done == [liveCalls EXCEPT ![Len(liveCalls)].result = result,
                                  ![Len(liveCalls)].seen = seen]
        to   == afterStep(step)
    IN  IF result = "true"
        THEN /\ livePc' = to
             /\ liveArg' = argAfter(step)
             /\ liveCalls' = IF to.at = "submit"
                             THEN enterUpdate(done, to.step, "none", argAfter(step))
                             ELSE done
             /\ UNCHANGED liveExit
        ELSE /\ livePc' = [step |-> "final", at |-> "exited"]
             /\ liveArg' = liveArg
             /\ liveCalls' = done
             /\ liveExit' = "1"

returnFrom(result, seen) ==
    LET step == livePc.step
        done == [liveCalls EXCEPT ![Len(liveCalls)].result = result,
                                  ![Len(liveCalls)].seen = seen]
        to   == afterStep(step)
    IN  /\ livePc' = to
        /\ liveArg' = argAfter(step)
        /\ liveCalls' = IF to.at = "submit"
                        THEN enterUpdate(done, to.step, "none", argAfter(step))
                        ELSE done
        /\ UNCHANGED liveExit

\* const btcPrice = await getBitcoinPrice(); updateOracle(btcPrice, ...) begins.
FetchBitcoin ==
    /\ livePc = [step |-> "btc", at |-> "fetch"]
    /\ \E response \in Responses :
        /\ liveArg' = getBitcoinPrice(response)
        /\ liveCalls' = enterUpdate(liveCalls, "btc", response.kind,
                                    getBitcoinPrice(response))
    /\ livePc' = [step |-> "btc", at |-> "submit"]
    /\ UNCHANGED <<liveExit, txpool, ledgerUp>>
    /\ LiveFrame

\* const ethPrice = await getEthereumPrice(); updateOracle(ethPrice, ...) begins.
FetchEthereum ==
    /\ livePc = [step |-> "eth", at |-> "fetch"]
    /\ \E response \in Responses :
        /\ liveArg' = getEthereumPrice(response)
        /\ liveCalls' = enterUpdate(liveCalls, "eth", response.kind,
                                    getEthereumPrice(response))
    /\ livePc' = [step |-> "eth", at |-> "submit"]
    /\ UNCHANGED <<liveExit, txpool, ledgerUp>>
    /\ LiveFrame

\* await oracle.connect(deployer).updateData(value) resolves: the argument was
\* encoded, the gas estimate did not revert, the node took the transaction.
LiveSubmitResolves ==
    /\ livePc.at = "submit"
    /\ encodable(liveArg)
    /\ ledgerUp
    /\ onlyOracle(Signer)
    /\ txpool' = Append(txpool, [sender |-> Signer, value |-> liveArg.n])
    /\ liveCalls' = [liveCalls EXCEPT ![Len(liveCalls)].submitted = TRUE]
    /\ livePc' = [livePc EXCEPT !.at = "wait"]
    /\ UNCHANGED <<liveArg, liveExit, ledgerUp>>
    /\ LiveFrame

\* ... or it throws; the catch of updateOracle() returns false.
LiveSubmitThrows ==
    /\ livePc.at = "submit"
    /\ ~encodable(liveArg) \/ ~ledgerUp \/ ~onlyOracle(Signer)
    /\ returnFrom("false", <<0, 0>>)
    /\ UNCHANGED <<txpool, ledgerUp>>
    /\ LiveFrame

\* await tx.wait() resolves once the transaction is in a block.
LiveWaitResolves ==
    /\ livePc.at = "wait"
    /\ txpool = <<>>
    /\ ledgerUp
    /\ livePc' = [livePc EXCEPT !.at = "verify"]
    /\ UNCHANGED <<liveArg, liveCalls, liveExit, txpool, ledgerUp>>
    /\ LiveFrame

LiveWaitThrows ==
    /\ livePc.at = "wait"
    /\ ~ledgerUp
    /\ returnFrom("false", <<0, 0>>)
    /\ UNCHANGED <<txpool, ledgerUp>>
    /\ LiveFrame

\* const [data, timestamp] = await oracle.getData(); return true
LiveVerifyResolves ==
    /\ livePc.at = "verify"
    /\ ledgerUp
    /\ returnFrom("true", getData)
    /\ UNCHANGED <<txpool, ledgerUp>>
    /\ LiveFrame

LiveVerifyThrows ==
    /\ livePc.at = "verify"
    /\ ~ledgerUp
    /\ returnFrom("false", <<0, 0>>)
    /\ UNCHANGED <<txpool, ledgerUp>>
    /\ LiveFrame

\* The final oracle.getData() of main() resolves: main() resolves, the summary
\* is printed and process.exit(0) runs.
LiveFinalResolves ==
    /\ livePc = [step |-> "final", at |-> "read"]
    /\ ledgerUp
    /\ livePc' = [step |-> "final", at |-> "exited"]
    /\ liveExit' = "0"
    /\ UNCHANGED <<liveArg, liveCalls, txpool, ledgerUp>>
    /\ LiveFrame

\* ... or it throws: main() rejects and process.exit(1) runs.
LiveFinalThrows ==
    /\ livePc = [step |-> "final", at |-> "read"]
    /\ ~ledgerUp
    /\ livePc' = [step |-> "final", at |-> "exited"]
    /\ liveExit' = "1"
    /\ UNCHANGED <<liveArg, liveCalls, txpool, ledgerUp>>
    /\ LiveFrame

\* The node goes down or comes back while the script runs.
LiveLinkChanges == livePc.at # "exited" /\ LinkChanges

NextLive ==
    \/ FetchBitcoin
    \/ FetchEthereum
    \/ LiveSubmitResolves
    \/ LiveSubmitThrows
    \/ LiveWaitResolves
    \/ LiveWaitThrows
    \/ LiveVerifyResolves
    \/ LiveVerifyThrows
    \/ LiveFinalResolves
    \/ LiveFinalThrows
    \/ ExecuteUpdate
    \/ MineForPending
    \/ LiveLinkChanges

\* The contract at the script's fixed address was deployed by the script's
\* account or by another one; main() is about to fetch the Bitcoin price.
InitLive ==
    /\ Deployed
    /\ build = "require"
    /\ deployer \in {Signer, "user1"}
    /\ ClientsIdle
    /\ UpdaterIdle
    /\ livePc = [step |-> "btc", at |-> "fetch"]
    /\ liveArg = Num(0)
    /\ liveCalls = <<>>
    /\ liveExit = "none"

SpecLive == InitLive /\ [][NextLive]_vars

\* ------------------------------------------------ two Updater processes
\* Two processes running Updater.ts with the same private key against the
\* same contract: each sends its updateData transactions on its own, and the
\* ledger puts the transactions of the two in one order of its choosing.

Writers == {"updaterA", "updaterB"}

\* The pending transactions of writer w, oldest first.
pendingOf(w) == {i \in 1 .. Len(txpool) : txpool[i].writer = w}

\* The pool without its i-th transaction.
without(pool, i) == SubSeq(pool, 1, i - 1) \o SubSeq(pool, i + 1, Len(pool))

\* await contract.updateData(value) in one of the processes: the transaction
\* is signed by the shared wallet and sent.
WriterSubmits ==
    \E w \in Writers, value \in Uint256 :
        /\ Len(writes) + Len(txpool) < MaxTxs
        /\ txpool' = Append(txpool, [sender |-> Wallet, value |-> value,
                                     writer |-> w,
                                     order |-> Len(writes) + Len(txpool) + 1])
        /\ UNCHANGED <<build, deployer, blockTimestamp, lastCall, nCalls,
                       writes, reads, updVars, liveVars>>
        /\ UNCHANGED contractVars

\* The ledger executes a pending transaction: the oldest one of either
\* process, whichever it puts first.
LedgerCommits ==
    \E i \in 1 .. Len(txpool) :
        /\ \A j \in pendingOf(txpool[i].writer) : i <= j
        /\ updateData(txpool[i].sender, txpool[i].value)
        /\ nCalls' = nCalls + 1
        /\ writes' = IF lastCall'.status = "success"
                     THEN Append(writes, [value |-> txpool[i].value,
                                          timestamp |-> blockTimestamp,
                                          writer |-> txpool[i].writer,
                                          order |-> txpool[i].order])
                     ELSE writes
        /\ txpool' = without(txpool, i)
        /\ UNCHANGED <<build, deployer, blockTimestamp, reads, updVars, liveVars>>

NextWriters ==
    \/ WriterSubmits
    \/ LedgerCommits
    \/ MineBlock

\* The contract was deployed by the account of the shared key.
InitWriters == Init /\ deployer = Wallet

SpecWriters == InitWriters /\ [][NextWriters]_vars

\* ------------------------------------------------- the weather encoding
\* TEST 3 of liveOracle.ts with readings other than the script's own: a
\* reading is encoded into one number, and the number is written.

\* Readings within temperature 0..50, humidity 0..100, pressure 0..1100; the
\* script's own reading (22, 65, 1013) is among them.
Temperatures == {0, 22, 50}

Humidities == {0, 1, 65, 75}

Pressures == {0, 13, 100, 1013}

\* const encodedWeather = ...: the reading is encoded, updateOracle() entered.
EncodeReading ==
    \E t \in Temperatures, h \in Humidities, p \in Pressures :
        /\ livePc = [step |-> "weather", at |-> "encode"]
        /\ Len(liveCalls) < MaxReadings
        /\ liveArg' = Num(encodeWeather(t, h, p))
        /\ liveCalls' = Append(liveCalls,
                               [step |-> "weather",
                                reading |-> [temperature |-> t, humidity |-> h,
                                             pressure |-> p],
                                arg |-> Num(encodeWeather(t, h, p))])
        /\ livePc' = [step |-> "weather", at |-> "submit"]
        /\ UNCHANGED <<liveExit, txpool, ledgerUp>>
        /\ LiveFrame

\* oracle.connect(deployer).updateData(encodedWeather) is executed.
WriteReading ==
    /\ livePc = [step |-> "weather", at |-> "submit"]
    /\ updateData(Signer, liveArg.n)
    /\ nCalls' = nCalls + 1
    /\ writes' = IF lastCall'.status = "success"
                 THEN Append(writes, [value |-> liveArg.n,
                                      timestamp |-> blockTimestamp])
                 ELSE writes
    /\ livePc' = [step |-> "weather", at |-> "encode"]
    /\ UNCHANGED <<liveArg, liveCalls, liveExit>>
    /\ UNCHANGED <<build, deployer, blockTimestamp, clientVars, updVars>>

NextWeather ==
    \/ EncodeReading
    \/ WriteReading

\* The contract was deployed by the script's account; the script is at TEST 3.
InitWeather ==
    /\ Deployed
    /\ build = "require"
    /\ deployer = Signer
    /\ ClientsIdle
    /\ UpdaterIdle
    /\ livePc = [step |-> "weather", at |-> "encode"]
    /\ liveArg = Num(0)
    /\ liveCalls = <<>>
    /\ liveExit = "none"

SpecWeather == InitWeather /\ [][NextWeather]_vars

\* ------------------------------------------------------------ the claims
\* The step executes a call of op.
IsCall(op) == nCalls' = nCalls + 1 /\ lastCall'.op = op

\* The pair of the updateData that succeeded last; (0, 0) before the first.
Committed ==
    IF writes = <<>>
    THEN <<0, 0>>
    ELSE <<writes[Len(writes)].value, writes[Len(writes)].timestamp>>

\* C1: updateData called by anyone but oracleUpdater fails, and data,
\* lastUpdated and the DataUpdated log are what they were before the call,
\* in whatever state the call is made.
C1_UnauthorizedUpdateChangesNothing ==
    [][(IsCall("updateData") /\ lastCall'.sender # oracleUpdater)
         => /\ lastCall'.status = "reverted"
            /\ data' = data
            /\ lastUpdated' = lastUpdated
            /\ events' = events
            /\ getData' = getData]_vars

\* An unauthorized attempt rejected after an authorized write went through.
C1_Witness ==
    /\ lastCall.op = "updateData"
    /\ lastCall.sender # oracleUpdater
    /\ lastCall.status = "reverted"
    /\ Len(writes) >= 1
    /\ nCalls >= 3

\* C2: updateData(v) by oracleUpdater succeeds for every v of the word,
\* 0 and the maximum included, and getData() right after returns (v, t)
\* with t > 0.
C2_AuthorizedUpdateAcceptsEveryValue ==
    [][(IsCall("updateData") /\ lastCall'.sender = oracleUpdater)
         => /\ lastCall'.status = "success"
            /\ getData'[1] = lastCall'.value
            /\ getData'[2] > 0]_vars

\* Both 0 and the maximum have been written, the last write being read back.
C2_Witness ==
    /\ lastCall.op = "updateData"
    /\ lastCall.status = "success"
    /\ getData[1] = lastCall.value
    /\ \E i, j \in 1 .. Len(writes) :
           writes[i].value = 0 /\ writes[j].value = MaxUint

\* C3: oracleUpdater is the deployer after construction and in every state
\* reached by successful updateData, rejected updateData and getData calls.
C3_OracleUpdaterIsDeployer == oracleUpdater = deployer

\* A write has succeeded and the last call was a rejected one.
C3_Witness ==
    /\ oracleUpdater = deployer
    /\ Len(writes) >= 1
    /\ lastCall.op = "updateData"
    /\ lastCall.status = "reverted"

\* C4: getData() before any successful updateData returns (0, 0).
C4_FreshReadIsZero ==
    writes = <<>>
        => /\ getData = <<0, 0>>
           /\ lastCall.op = "getData" => lastCall.ret = <<0, 0>>

\* getData() answered while no write has succeeded, after time has passed.
C4_Witness ==
    /\ lastCall.op = "getData"
    /\ writes = <<>>
    /\ blockTimestamp > GenesisTime

\* C5: data and lastUpdated change only in a successful updateData step of
\* oracleUpdater, and that step leaves both written: data holds the argument
\* and lastUpdated the time of the block.
C5_PairChangesOnlyByAuthorizedWrite ==
    [][(data' # data \/ lastUpdated' # lastUpdated)
         => /\ IsCall("updateData")
            /\ lastCall'.status = "success"
            /\ lastCall'.sender = oracleUpdater
            /\ data' = lastCall'.value
            /\ lastUpdated' = blockTimestamp]_vars

\* A second write that replaced both the value and the timestamp.
C5_Witness ==
    /\ lastCall.op = "updateData"
    /\ lastCall.status = "success"
    /\ Len(writes) >= 2
    /\ writes[Len(writes)].value # writes[Len(writes) - 1].value
    /\ writes[Len(writes)].timestamp # writes[Len(writes) - 1].timestamp
    /\ getData = Committed

\* C6: a successful updateData(v) appends exactly one DataUpdated event to
\* the log; its value is v and its timestamp is at least the lastUpdated
\* that getData() returns right after.
C6_OneEventPerSuccessfulUpdate ==
    [][(IsCall("updateData") /\ lastCall'.status = "success")
         => /\ Len(events') = Len(events) + 1
            /\ SubSeq(events', 1, Len(events)) = events
            /\ events'[Len(events')].value = lastCall'.value
            /\ events'[Len(events')].timestamp >= getData'[2]]_vars

\* A successful write whose event joined an earlier one in the log.
C6_Witness ==
    /\ lastCall.op = "updateData"
    /\ lastCall.status = "success"
    /\ Len(events) >= 2
    /\ events[Len(events)].value = lastCall.value

\* C7: the number of DataUpdated events equals the number of updateData
\* calls that succeeded: a rejected call adds none.
C7_EventCountIsSuccessCount == Len(events) = Len(writes)

\* A rejected call made after a successful one: one event, several calls.
C7_Witness ==
    /\ lastCall.op = "updateData"
    /\ lastCall.status = "reverted"
    /\ Len(events) = 1
    /\ Len(writes) = 1
    /\ nCalls >= 2

\* C8: after successful updateData calls with values v1..vN, getData()
\* returns vN, never an earlier value that differs from it.
C8_ReadReturnsLastWrittenValue ==
    Len(writes) >= 1
        => /\ getData[1] = writes[Len(writes)].value
           /\ lastCall.op = "getData"
                  => lastCall.ret[1] = writes[Len(writes)].value

\* getData() answered after two writes of different values.
C8_Witness ==
    /\ lastCall.op = "getData"
    /\ Len(writes) >= 2
    /\ writes[1].value # writes[Len(writes)].value
    /\ lastCall.ret[1] = writes[Len(writes)].value

\* C9: every rejected updateData reports the reason "Not authorized".
C9_RejectedReportsNotAuthorized ==
    (lastCall.op = "updateData" /\ lastCall.status = "reverted")
        => lastCall.reason = "Not authorized"

\* C10: getData() can be called by every caller and succeeds, returns the
\* pair of the most recent successful write whoever calls, and leaves data,
\* lastUpdated, oracleUpdater and the event log unchanged.
C10_ReadIsOpenAndPure ==
    /\ [](nCalls < MaxCalls => \A c \in Address : ENABLED GetDataBy(c))
    /\ [][IsCall("getData")
            => /\ lastCall'.status = "success"
               /\ lastCall'.ret = Committed
               /\ UNCHANGED contractVars]_vars

\* getData() answered to a caller who is not oracleUpdater, after a write.
C10_Witness ==
    /\ lastCall.op = "getData"
    /\ lastCall.sender # oracleUpdater
    /\ lastCall.status = "success"
    /\ Len(writes) >= 1
    /\ lastCall.ret[1] # lastCall.ret[2]
    /\ lastCall.ret = getData

\* C11: lastUpdated is 0 exactly when no updateData has succeeded; data = 0
\* does not tell the two apart (it holds before any write and again after a
\* successful updateData(0)).
C11_ZeroTimestampIffNeverWritten ==
    /\ lastUpdated = 0 <=> writes = <<>>
    /\ writes = <<>> => data = 0

\* data is 0 again after a nonzero write and a later updateData(0).
C11_Witness ==
    /\ data = 0
    /\ lastUpdated # 0
    /\ Len(writes) >= 2
    /\ writes[1].value # 0
    /\ writes[Len(writes)].value = 0

\* C12: lastUpdated never decreases: a successful updateData stores a
\* timestamp at least as large as the one stored by the write before it.
C12_LastUpdatedNeverDecreases ==
    [][lastUpdated' >= lastUpdated]_vars

\* Two writes, the second in a later block, and one more in the same block.
C12_Witness ==
    /\ Len(writes) >= 3
    /\ writes[1].timestamp < writes[2].timestamp
    /\ writes[2].timestamp = writes[3].timestamp
    /\ lastUpdated = writes[3].timestamp

\* The pair committed by the k-th successful updateData; (0, 0) for k = 0.
PairAfter(k) ==
    IF k = 0 THEN <<0, 0>> ELSE <<writes[k].value, writes[k].timestamp>>

C14_NoOverlappingCycles == Cardinality(InFlight) <= 1

\* C15: no failure inside a cycle (rejected write, connectivity error,
\* failed confirmation) ends the Updater process or cancels its timer: the
\* timer stays armed, and when it is due after a failed cycle the next cycle
\* can start.
C15_FailureNeverStopsUpdater ==
    /\ upProc # "exited"
    /\ upProc = "running" => timerActive
    /\ ( /\ upProc = "running"
         /\ \E i \in 1 .. Len(cycles) : cycles[i].state = "failed"
         /\ now = nextFire
         /\ Len(cycles) < MaxCycles ) => ENABLED TimerFires

\* A cycle whose confirmation failed, and the next tick's cycle started.
C15_Witness ==
    /\ upProc = "running"
    /\ Len(cycles) = 2
    /\ cycles[1].state = "failed"
    /\ cycles[1].error = "confirmation"
    /\ cycles[2].startedAt > cycles[1].startedAt

\* C16: a cycle submits at most one updateData transaction; once its
\* submission or confirmation has failed the cycle is over and submits
\* nothing more.
C16_OneSubmissionPerCycle ==
    [][\A i \in 1 .. Len(cycles) :
          /\ cycles'[i].submissions <= 1
          /\ cycles[i].state = "failed"
                 => /\ cycles'[i].state = "failed"
                    /\ cycles'[i].submissions = cycles[i].submissions]_vars

\* A cycle failed after its one submission; the next cycle made its own.
C16_Witness ==
    /\ Len(cycles) = 2
    /\ cycles[1].state = "failed"
    /\ cycles[1].error = "confirmation"
    /\ cycles[1].submissions = 1
    /\ cycles[2].submissions = 1

\* C17: when the fetch of a price fails (axios throws, or the response lacks
\* the coin's entry or its usd field), the updateOracle() of that test is
\* still entered and its argument, the value handed to updateData, is the
\* fallback: 50000 for Bitcoin, 3000 for Ethereum.
C17_FetchFailureFallsBack ==
    \A i \in 1 .. Len(liveCalls) :
        liveCalls[i].fetch \in {"throws", "noCoin", "noUsd"}
            => liveCalls[i].arg = Num(IF liveCalls[i].step = "btc"
                                      THEN BitcoinFallback
                                      ELSE EthereumFallback)

\* C18: the first cycle starts when the process starts, before any timer
\* tick, and the k-th tick, 5 minutes after the one before, starts one more
\* cycle, no tick being skipped while the process runs.
C18_FirstCycleAtStartThenEveryFiveMinutes ==
    /\ upProc # "init" => Len(cycles) >= 1
    /\ \A k \in 1 .. Len(cycles) : cycles[k].startedAt = (k - 1) * 300000
    /\ upProc = "running" => Len(cycles) >= now \div 300000

\* The second cycle, started by the first tick, 5 minutes after the start.
C18_Witness ==
    /\ upProc = "running"
    /\ Len(cycles) = 2
    /\ cycles[1].startedAt = 0
    /\ cycles[2].startedAt = 300000

\* C19: when the ledger cannot be reached at process start, the Updater exits
\* with an error before its periodic loop begins.
C19_StartupFailureExits ==
    (startedDown /\ upProc # "init")
        => /\ upProc = "exited"
           /\ cycles = <<>>
           /\ ~timerActive

\* C20: on a shutdown signal the process exits only once the cycle that was
\* in flight has finished or failed: when the signal has ended the process,
\* no cycle is left awaiting its submission or confirmation.
C20_ShutdownWaitsForCycle == upProc = "killed" => InFlight = {}

\* C21: the values of one Updater process are committed in the order in
\* which their cycles started: the step that commits the value of a cycle
\* never finds the different value of a later cycle committed before it, so
\* data never goes back from a later cycle's value to an earlier cycle's.
C21_CommitsInCycleOrder ==
    [][\A i \in 1 .. Len(cycles) :
          (cycles[i].receipt = "none" /\ cycles'[i].receipt = "success")
              => \A j \in (i + 1) .. Len(cycles) :
                     cycles[j].receipt = "success"
                         => cycles[j].value = cycles[i].value]_vars

\* C22: when two processes write with the authorized identity, in whatever
\* order the ledger commits their transactions, data and lastUpdated are in
\* every state the value and the timestamp of the one write committed last
\* (before any write, zero), never the value of one write with the timestamp
\* of another, and each commit adds its one event.
C22_LastCommittedWins ==
    /\ getData = Committed
    /\ Len(events) = Len(writes)
    /\ txpool = <<>> /\ writes # <<>>
           => /\ data = writes[Len(writes)].value
              /\ lastUpdated = writes[Len(writes)].timestamp

\* The two processes each sent a transaction; the ledger committed the one
\* sent second first, in an earlier block, and the one sent first last.
C22_Witness ==
    /\ txpool = <<>>
    /\ Len(writes) = 2
    /\ writes[1].writer # writes[2].writer
    /\ writes[1].order = 2
    /\ writes[2].order = 1
    /\ writes[1].value # writes[2].value
    /\ writes[1].timestamp < writes[2].timestamp
    /\ getData = <<writes[2].value, writes[2].timestamp>>

\* C23: a successful updateData stores a timestamp strictly greater than the
\* time of the latest block before it, and when ledger time has advanced
\* past the write before it, the lastUpdated read after it is strictly
\* greater than the lastUpdated read after that earlier write.
C23_LaterWriteHasLaterTimestamp ==
    [][(IsCall("updateData") /\ lastCall'.status = "success")
         => /\ getData'[2] > latestBlockTime
            /\ (writes # <<>> /\ blockTimestamp > getData[2])
                   => getData'[2] > getData[2]]_vars

\* The test's run: the deployment block is closed, a first write, time
\* advances, a second write with another value.
C23_Witness ==
    /\ lastCall.op = "updateData"
    /\ lastCall.status = "success"
    /\ Len(writes) = 2
    /\ writes[1].timestamp > GenesisTime
    /\ writes[2].timestamp > writes[1].timestamp
    /\ writes[1].value # writes[2].value
    /\ getData[2] = writes[2].timestamp

\* C24: updateData(v) by oracleUpdater when the last successful write already
\* stored v leaves data at v (getData still returns v) and is a full write
\* all the same: it succeeds, sets lastUpdated to the time of the block and
\* appends its own DataUpdated(v, time) event.
C24_RepeatedValueIsFullWrite ==
    [][( /\ IsCall("updateData")
         /\ lastCall'.sender = oracleUpdater
         /\ writes # <<>>
         /\ lastCall'.value = data )
         => /\ lastCall'.status = "success"
            /\ data' = data
            /\ getData'[1] = lastCall'.value
            /\ lastUpdated' = blockTimestamp
            /\ events' = Append(events, [value |-> lastCall'.value,
                                         timestamp |-> blockTimestamp])]_vars

\* The same nonzero value written three times, the writes in different
\* blocks: three events of that value, the timestamp that of the last.
C24_Witness ==
    /\ lastCall.op = "updateData"
    /\ lastCall.status = "success"
    /\ Len(writes) = 3
    /\ writes[1].value # 0
    /\ writes[2].value = writes[1].value
    /\ writes[3].value = writes[1].value
    /\ writes[3].timestamp > writes[1].timestamp
    /\ data = writes[1].value
    /\ lastUpdated = writes[3].timestamp
    /\ Len(events) = 3
    /\ events[3].value = writes[1].value

\* C25: a failed updateOracle() of the live-oracle script (its submission or
\* its confirmation threw) returns false and the script goes on: the calls
\* are made in the order Bitcoin, Ethereum, weather, rate, a call that
\* returned false is followed by the next test, and the script exits only
\* after all four calls have returned and the final getData was attempted.
C25_FailedUpdateDoesNotAbort ==
    /\ \A i \in 1 .. Len(liveCalls) :
          /\ liveCalls[i].step = LiveSteps[i]
          /\ liveCalls[i].result = "false"
                 => \/ i < Len(liveCalls)
                    \/ livePc = afterStep(LiveSteps[i])
                    \/ i = Len(LiveSteps) /\ livePc.step = "final"
    /\ liveExit # "none"
          => /\ Len(liveCalls) = Len(LiveSteps)
             /\ \A i \in 1 .. Len(liveCalls) : liveCalls[i].result # "pending"
             /\ livePc = [step |-> "final", at |-> "exited"]

\* The Bitcoin update failed at its confirmation and the Ethereum update at
\* its submission; the weather and rate updates and the final read followed.
C25_Witness ==
    /\ liveExit = "0"
    /\ Len(liveCalls) = 4
    /\ liveCalls[1].submitted /\ liveCalls[1].result = "false"
    /\ ~liveCalls[2].submitted /\ liveCalls[2].result = "false"
    /\ liveCalls[3].result = "true"
    /\ liveCalls[4].result = "true"

\* C26: when the live-oracle script has printed its closing summary ("all
\* updates confirmed on the blockchain") and exited with status 0, each of
\* its four updateOracle() calls returned true.
C26_SummaryMeansAllConfirmed ==
    liveExit = "0"
        => /\ Len(liveCalls) = Len(LiveSteps)
           /\ \A i \in 1 .. Len(liveCalls) : liveCalls[i].result = "true"

\* C27: once a write has succeeded, the most recent DataUpdated event carries
\* the current (data, lastUpdated) pair, and the values of the events, in
\* emission order, are the values of the successful updateData calls, in
\* commit order.
C27_EventsMirrorWrites ==
    writes # <<>>
        => /\ events # <<>>
           /\ events[Len(events)] = [value |-> data, timestamp |-> lastUpdated]
           /\ [i \in 1 .. Len(events) |-> events[i].value]
                  = [i \in 1 .. Len(writes) |-> writes[i].value]

\* Three writes of values not all alike, in more than one block, and a
\* rejected call after them.
C27_Witness ==
    /\ Len(writes) = 3
    /\ writes[1].value # writes[2].value
    /\ writes[2].value # writes[3].value
    /\ writes[1].timestamp # writes[3].timestamp
    /\ lastCall.op = "updateData"
    /\ lastCall.status = "reverted"
    /\ events[3] = [value |-> data, timestamp |-> lastUpdated]

\* The values of the updateData calls that succeeded so far.
WrittenValues == {writes[i].value : i \in 1 .. Len(writes)}

\* C28: data is 0 while no write has succeeded and afterwards the argument
\* of an updateData that succeeded; the calls that succeed are calls by
\* oracleUpdater, and a rejected call leaves data as it was, so a value
\* supplied only in rejected calls never appears in data.
C28_DataComesFromAuthorizedWrites ==
    [][/\ data \in (IF writes = <<>> THEN {0} ELSE WrittenValues)
       /\ data' \in (IF writes' = <<>> THEN {0} ELSE WrittenValues')
       /\ writes' # writes
              => /\ IsCall("updateData")
                 /\ lastCall'.sender = oracleUpdater
                 /\ lastCall'.status = "success"
                 /\ WrittenValues' = WrittenValues \cup {lastCall'.value}
       /\ (IsCall("updateData") /\ lastCall'.status = "reverted")
              => /\ data' = data
                 /\ writes' = writes]_vars

\* After a successful write, a call by another account was rejected; its
\* argument was never written and data is not that argument.
C28_Witness ==
    /\ writes # <<>>
    /\ lastCall.op = "updateData"
    /\ lastCall.sender # oracleUpdater
    /\ lastCall.status = "reverted"
    /\ lastCall.value \notin WrittenValues
    /\ lastCall.value # 0
    /\ data # lastCall.value
    /\ data \in WrittenValues

\* C29: a cycle whose confirmation has not arrived does not stall the
\* Updater: while it is pending the timer stays armed, every tick that came
\* due since it started has started a cycle of its own, and the tick that is
\* due now can start one.
C29_HungCycleDoesNotStallTimer ==
    \A i \in 1 .. Len(cycles) :
        (upProc = "running" /\ cycles[i].state = "confirming")
            => /\ timerActive
               /\ Len(cycles) >= i - 1 + (now - cycles[i].startedAt) \div IntervalMs
               /\ (now = nextFire /\ Len(cycles) < MaxCycles) => ENABLED TimerFires

\* The first cycle still awaits its confirmation, its transaction not yet
\* executed, and the tick five minutes later has started the second cycle.
C29_Witness ==
    /\ upProc = "running"
    /\ Len(cycles) >= 2
    /\ cycles[1].state = "confirming"
    /\ cycles[1].receipt = "none"
    /\ cycles[2].startedAt = cycles[1].startedAt + IntervalMs
    /\ now >= cycles[2].startedAt

\* C30: the weather encoding is injective over readings with temperature in
\* 0..50, humidity in 0..100 and pressure in 0..1100: two readings encoded
\* to the same number are the same reading.
C30_WeatherEncodingInjective ==
    \A i, j \in 1 .. Len(liveCalls) :
        liveCalls[i].arg = liveCalls[j].arg
            => liveCalls[i].reading = liveCalls[j].reading

====
